---- MODULE Spec2Model ----
(***************************************************************************)
(* Model of the go-blynk protocol engine (src/blynk.go).                   *)
(*                                                                         *)
(* The engine object is the set of variables below.  Two caller goroutines *)
(* use it: Main runs Connect and then Processing, User issues the request  *)
(* operations and Disconnect, and either may call Stop.  Every blocking    *)
(* point of an operation (a read from the transport, the sleep inside      *)
(* Stop) is a position of the calling thread, so that the peer and the     *)
(* other goroutines can act in between.                                    *)
(* A panic in any goroutine ends the Go process: it is recorded in fault   *)
(* and disables every action.                                              *)
(*                                                                         *)
(* blynk.go calls sendString, sendMessage, sendCommand, receiveMessage,    *)
(* receiver and processor and uses the BLYNK_* constants, all of which     *)
(* live in files of the package that are not part of src/.  Those parts    *)
(* are modelled from the specification's description of the transport,     *)
(* the frame and the dispatch pipeline.                                    *)
(***************************************************************************)
EXTENDS Integers, Sequences, FiniteSets, TLC

\* ------------------------------------------------------------------ bounds

\* Allocations of a message id allowed in a run of Spec (caps the counter).
MaxMsg == 4
\* Frames the peer may have in flight towards the engine.
MaxInbox == 1
\* Frames g.recvMsg holds in the model (the channel's capacity is 10).
MaxQueue == 1
\* Calls of Connect, Processing and Stop allowed in a run of Spec.
MaxConnects == 2
MaxProcessings == 1
MaxStops == 2
\* SpecIds: allocations per run, and how far below the wrap a run may start.
MaxAllocs == 5
WrapLead == 2
\* SpecInternal: the largest heartbeat interval tried, in tenths of a second.
MaxBeat == 125
\* SpecRegistry: the largest pin, and the registry calls allowed in a run.
MaxPin == 1
MaxRegOps == 3
\* SpecDispatch: the registry calls allowed in a run.
MaxDispatchRegOps == 2

\* --------------------------------------------------------- program constants

\* msgID is a uint16 (blynk.go:26): arithmetic on it is modulo 2^16.
Uint16Mod == 65536
\* The literal 0xFFFF of getMessageID (blynk.go:193).
MaxUint16 == 65535

\* g.heartbeat as NewBlynk sets it (blynk.go:48), in tenths of a second.
DefaultHeartbeat == 100

\* Command codes and status codes used by blynk.go; their values are set in
\* a file of the package outside src/, only their distinctness matters here.
BLYNK_CMD_RESPONSE == "response"
BLYNK_CMD_HW_LOGIN == "login"
BLYNK_CMD_INTERNAL == "internal"
BLYNK_CMD_PING == "ping"
BLYNK_CMD_HARDWARE == "hardware"
BLYNK_CMD_HARDWARE_SYNC == "hardware_sync"
BLYNK_CMD_NOTIFY == "notify"
BLYNK_CMD_TWEET == "tweet"
BLYNK_CMD_EMAIL == "email"
BLYNK_SUCCESS == "success"
BLYNK_INVALID_TOKEN == "invalid_token"

\* ------------------------------------------------------------------- state

Main == "main"
User == "user"
Threads == {Main, User}
Workers == {"keepAlive", "caller", "processor"}

VARIABLES
    conn,            \* g.conn: "nil", "nilTLS", "nilTCP", "open", "closed"
    ssl,             \* g.ssl
    msgID,           \* g.msgID, a uint16
    processingUsing, \* g.processingUsing
    cancel,          \* g.cancel: "open" or "closed"
    recvMsg,         \* g.recvMsg: [closed, q]
    lock,            \* g.lock: "free" or the holder
    inbox,           \* frames sent by the peer and not yet read
    pc,              \* position of each caller thread
    op,              \* the operation each thread is in or has last returned from
    ret,             \* what that call returned
    reqId,           \* User's request: message id of the frame it sent
    wrote,           \* User's request: whether its frame was written
    atCheck,         \* User's request: g.processingUsing when it tested it
    resp,            \* User's request: frame taken as response (NoFrame: none)
    loginId,         \* Connect: id of the login frame
    loginResp,       \* Connect: frame auth received
    capId,           \* Connect: id of the capability-announcement frame
    capResp,         \* Connect: frame sendInternal received
    hs,              \* Connect: what sendInternal returned
    connected,       \* some Connect has returned nil
    connects,        \* calls of Connect so far
    processings,     \* calls of Processing so far
    stopCalls,       \* calls of Stop so far
    closes,          \* successful g.conn.Close() calls on the open transport
    kaLive,          \* running keepAlive goroutines
    prLive,          \* running processor goroutines
    timedOut,        \* ids of requests whose response read timed out
    fault,           \* "none", or the panic that ended the process
    wpc,             \* SpecIds: position of each allocator in getMessageID
    issuedLog,       \* SpecIds, SpecWrap: ids returned by getMessageID, in order
    heartbeat,       \* g.heartbeat, in tenths of a second
    capBody,         \* Connect: body of the capability-announcement frame
    readers,         \* g.readers: a map from pin to callback
    writers,         \* g.writers: a map from pin to callback
    regLog,          \* the registry calls made so far, in order
    dispatched,      \* the handler calls the processor made for the frame
                     \* it handled last
    dw               \* User's last DigitalWrite: its arguments, the value of
                     \* g.msgID before it, and the frames it wrote

\* The record of a call (op, ret, the request's and Connect's fields) is
\* kept from the call's start until another call starts after its return.
callRec == <<pc, op, ret>>
reqRec == <<reqId, wrote, atCheck, resp>>
connRec == <<loginId, loginResp, capId, capResp, capBody, hs>>
counters == <<connects, processings, stopCalls>>
loops == <<kaLive, prLive>>
idVars == <<lock, wpc, issuedLog>>
registry == <<readers, writers, regLog>>
pinVars == <<heartbeat, registry, dispatched, dw>>

vars == <<conn, ssl, msgID, processingUsing, cancel, recvMsg, inbox, callRec,
          reqRec, connRec, connected, counters, closes, loops, timedOut,
          fault, idVars, pinVars>>

\* The engine's state apart from its counter, its mutex and the pin state.
coreVars == <<conn, ssl, processingUsing, cancel, recvMsg, inbox, callRec,
              reqRec, connRec, connected, counters, closes, loops, timedOut,
              fault>>

engineVars == <<coreVars, pinVars>>

\* A frame header as decoded from the wire; NoFrame stands for a nil *BlynkHead.
NoFrame == [Command |-> "none", MessageId |-> 0, Length |-> "none"]

Frame(c, id, len) == [Command |-> c, MessageId |-> id, Length |-> len]

\* What the peer may send when the engine's counter stands at m: a response
\* to the latest request with either status, a late success response to the
\* request before it, or a hardware push.
PeerFrames(m) ==
    { Frame(BLYNK_CMD_RESPONSE, m, BLYNK_SUCCESS),
      Frame(BLYNK_CMD_RESPONSE, m, BLYNK_INVALID_TOKEN),
      Frame(BLYNK_CMD_RESPONSE, m - 1, BLYNK_SUCCESS),
      Frame(BLYNK_CMD_HARDWARE, m, BLYNK_SUCCESS) }

\* -------------------------------------------------------------------- text

\* A string is the sequence of its characters; NUL is the character 0x00.
NUL == "NUL"

Digits == <<"0", "1", "2", "3", "4", "5", "6", "7", "8", "9">>

\* The constant Version.
Version == <<"0", ".", "0", ".", "7">>

\* The decimal text of the integer n.
RECURSIVE Itoa(_)
Itoa(n) ==
    IF n < 0 THEN <<"-">> \o Itoa(-n)
    ELSE IF n < 10 THEN <<Digits[n + 1]>>
    ELSE Itoa(n \div 10) \o <<Digits[(n % 10) + 1]>>

\* strings.Join(params, sep).
RECURSIVE Join(_, _)
Join(params, sep) ==
    IF params = <<>> THEN <<>>
    ELSE IF Len(params) = 1 THEN params[1]
    ELSE params[1] \o <<sep>> \o Join(Tail(params), sep)

\* The fields of a body: the texts between its separators.
RECURSIVE Split(_, _)
Split(text, sep) ==
    IF \A i \in DOMAIN text : text[i] # sep THEN <<text>>
    ELSE LET i == CHOOSE j \in DOMAIN text :
                      text[j] = sep /\ \A k \in 1..(j - 1) : text[k] # sep
         IN  <<SubSeq(text, 1, i - 1)>>
                 \o Split(SubSeq(text, i + 1, Len(text)), sep)

\* The number a decimal text stands for.
RECURSIVE Atoi(_)
Atoi(text) ==
    IF text[1] = "-" THEN 0 - Atoi(Tail(text))
    ELSE LET d == CHOOSE k \in DOMAIN Digits : Digits[k] = text[Len(text)]
         IN  IF Len(text) = 1 THEN d - 1
             ELSE 10 * Atoi(SubSeq(text, 1, Len(text) - 1)) + d - 1

\* fmt.Sprintf("%.0f", d.Seconds()) for a duration of h tenths of a second:
\* the nearest integer, a tie going to the even one.
FormatSeconds(h) ==
    LET whole == h \div 10
        rest == h % 10
    IN  IF rest > 5 \/ (rest = 5 /\ whole % 2 = 1) THEN Itoa(whole + 1)
        ELSE Itoa(whole)

\* formatInternal with FormatSeconds cutting the fraction off.
formatInternalTruncating(h) ==
    Join(<< <<"v", "e", "r">>, Version,
            <<"b", "u", "f", "f", "-", "i", "n">>, <<"1", "0", "2", "4">>,
            <<"h", "-", "b", "e", "a", "t">>, Itoa(h \div 10),
            <<"d", "e", "v">>, <<"g", "o">> >>, NUL)

\* formatInternal for g.heartbeat = h: the body of the
\* capability-announcement frame.
formatInternal(h) ==
    LET rcv_buffer == <<"1", "0", "2", "4">>
        params == << <<"v", "e", "r">>, Version,
                     <<"b", "u", "f", "f", "-", "i", "n">>, rcv_buffer,
                     <<"h", "-", "b", "e", "a", "t">>, FormatSeconds(h),
                     <<"d", "e", "v">>, <<"g", "o">> >>
    IN  Join(params, NUL)

\* ----------------------------------------------------------------- helpers

\* The body of getMessageID applied to the counter value m: g.msgID++ on a
\* uint16, then the comparison with 0xFFFF.
getMessageID(m) ==
    LET inc == (m + 1) % Uint16Mod
    IN  IF inc > MaxUint16 THEN 1 ELSE inc

\* Outcomes of writing one frame to g.conn: only an open transport can take
\* it, and a write to an open transport may still fail.
WriteOutcomes(c) == IF c = "open" THEN {TRUE, FALSE} ELSE {FALSE}

\* Outcomes of receiveMessage(timeout): the next frame of the stream, or an
\* error when none arrives before the deadline or the read fails.
ReceiveOutcomes(c, in) ==
    IF c # "open" THEN { [err |-> "read_err", frame |-> NoFrame] }
    ELSE IF in # <<>> THEN { [err |-> "none", frame |-> Head(in)] }
    ELSE { [err |-> "timeout", frame |-> NoFrame],
           [err |-> "read_err", frame |-> NoFrame] }

\* The stream after receiveMessage returned outcome o.
Consumed(in, o) == IF o.err = "none" THEN Tail(in) ELSE in

\* The condition under which auth returns its "auth: failed" error, for the
\* response it received and the current value id of g.msgID.
authRejects(response, id) ==
    /\ response # NoFrame
    /\ \/ response.MessageId # id
       \/ response.Command # BLYNK_CMD_RESPONSE
       \/ response.Length # BLYNK_SUCCESS

\* What sendInternal returns for the outcome o of its receiveMessage.
sendInternalResult(o) ==
    IF o.err # "none" THEN o.err
    ELSE IF o.frame.Length # BLYNK_SUCCESS THEN "status_err"
    ELSE "ok"

\* What Connect returns once auth succeeded: the result e of sendInternal is
\* dropped and nil is returned.
ConnectReturn(e) == "ok"

\* Values a read of g.processingUsing may yield.  The field is written by
\* Processing and read by request operations without synchronisation, so
\* once Processing has been called a reader in another goroutine may observe
\* either value.
FlagReads == IF processings > 0 THEN BOOLEAN ELSE {processingUsing}

Idle(t) == pc[t] = "idle"
OthersIdle(t) == \A u \in Threads \ {t} : pc[u] = "idle"
InConnect == \E u \in Threads : pc[u] \in {"auth_recv", "internal_recv"}
Alive == fault = "none"

\* -------------------------------------------------------------------- Init

\* An empty Go map.
EmptyMap == [p \in {} |-> p]

\* A frame that is no push; no DigitalWrite called yet.
NoPush == [tag |-> <<>>, pin |-> 0, value |-> <<>>]
NoWrite == [pin |-> 0, value |-> FALSE, before |-> 0, sent |-> <<>>]

\* The engine with its counter at m and its heartbeat interval at h.
InitEngine(m, h) ==
    /\ conn = "nil"
    /\ ssl = TRUE
    /\ msgID = m
    /\ processingUsing = FALSE
    /\ cancel = "open"
    /\ recvMsg = [closed |-> FALSE, q |-> <<>>]
    /\ lock = "free"
    /\ inbox = <<>>
    /\ pc = [t \in Threads |-> "idle"]
    /\ op = [t \in Threads |-> "none"]
    /\ ret = [t \in Threads |-> "none"]
    /\ reqId = 0
    /\ wrote = FALSE
    /\ atCheck = FALSE
    /\ resp = NoFrame
    /\ loginId = 0
    /\ loginResp = NoFrame
    /\ capId = 0
    /\ capResp = NoFrame
    /\ hs = "none"
    /\ connected = FALSE
    /\ connects = 0
    /\ processings = 0
    /\ stopCalls = 0
    /\ closes = 0
    /\ kaLive = 0
    /\ prLive = 0
    /\ timedOut = {}
    /\ fault = "none"
    /\ wpc = [w \in Workers |-> "idle"]
    /\ issuedLog = <<>>
    /\ heartbeat = h
    /\ capBody = <<>>
    /\ readers = EmptyMap
    /\ writers = EmptyMap
    /\ regLog = <<>>
    /\ dispatched = <<>>
    /\ dw = NoWrite

InitWith(m) == InitEngine(m, DefaultHeartbeat)

\* The engine as NewBlynk leaves it.
Init == InitWith(0)

\* Thread t, idle, calls operation o and gets to position p ("idle": the call
\* has returned) with result r.  The record of a call of the other thread
\* that has returned is dropped.
Call(t, o, p, r) ==
    /\ pc' = [pc EXCEPT ![t] = p]
    /\ op' = [u \in Threads |->
                IF u = t THEN o ELSE IF pc[u] = "idle" THEN "none" ELSE op[u]]
    /\ ret' = [u \in Threads |->
                IF u = t THEN r ELSE IF pc[u] = "idle" THEN "none" ELSE ret[u]]

\* The fields of the last Connect are dropped when another call starts.
DropConnRec ==
    /\ loginId' = 0 /\ loginResp' = NoFrame
    /\ capId' = 0 /\ capResp' = NoFrame /\ capBody' = <<>> /\ hs' = "none"

\* The fields of User's last request are dropped when a call of Main starts
\* after the request has returned.
DropReqRec ==
    IF pc[User] = "idle"
    THEN reqId' = 0 /\ wrote' = FALSE /\ atCheck' = FALSE /\ resp' = NoFrame
    ELSE UNCHANGED reqRec

\* A call in progress moves to position p, or returns r.
Goto(t, p) == pc' = [pc EXCEPT ![t] = p] /\ UNCHANGED <<op, ret>>

Return(t, r) ==
    /\ pc' = [pc EXCEPT ![t] = "idle"]
    /\ ret' = [ret EXCEPT ![t] = r]
    /\ UNCHANGED op

\* ----------------------------------------------------------------- Connect

\* Connect up to the first blocking read: resolve, dial, and the write of
\* the login frame by auth.  Callers do not run Connect concurrently with
\* another operation.
Connect(t) ==
    /\ Alive /\ Idle(t) /\ OthersIdle(t)
    /\ connects < MaxConnects
    /\ msgID + 2 <= MaxMsg
    /\ connects' = connects + 1
    /\ loginResp' = NoFrame /\ capId' = 0 /\ capResp' = NoFrame /\ hs' = "none"
    /\ capBody' = <<>>
    /\ DropReqRec
    /\ \/ \* net.ResolveTCPAddr fails: g.conn is not assigned
          /\ Call(t, "Connect", "idle", "resolve_err")
          /\ loginId' = 0
          /\ UNCHANGED <<conn, inbox, msgID>>
       \/ \* the dial fails: g.conn holds the nil pointer the dial returned
          /\ conn' = IF ssl THEN "nilTLS" ELSE "nilTCP"
          /\ Call(t, "Connect", "idle", "dial_err")
          /\ loginId' = 0
          /\ UNCHANGED <<inbox, msgID>>
       \/ \* the dial succeeds and auth sends the login frame
          /\ conn' = "open"
          /\ inbox' = <<>>
          /\ msgID' = getMessageID(msgID)
          /\ loginId' = msgID'
          /\ \E ok \in WriteOutcomes("open") :
                IF ok THEN Call(t, "Connect", "auth_recv", "pending")
                      ELSE Call(t, "Connect", "idle", "write_err")
    /\ UNCHANGED <<ssl, processingUsing, cancel, recvMsg, connected,
                   processings, stopCalls, closes, loops, timedOut, fault,
                   idVars, pinVars>>

\* auth from its receiveMessage on; when it succeeds, Connect goes on to
\* sendInternal, up to the write of the capability-announcement frame.
auth(t) ==
    /\ Alive /\ pc[t] = "auth_recv"
    /\ \E o \in ReceiveOutcomes(conn, inbox) :
          /\ inbox' = Consumed(inbox, o)
          /\ loginResp' = o.frame
          /\ IF o.err # "none"
             THEN /\ Return(t, o.err)
                  /\ UNCHANGED <<msgID, capId, capBody, hs, connected>>
             ELSE IF authRejects(o.frame, msgID)
             THEN /\ Return(t, "auth_err")
                  /\ UNCHANGED <<msgID, capId, capBody, hs, connected>>
             ELSE /\ msgID' = getMessageID(msgID)
                  /\ capId' = msgID'
                  /\ capBody' = formatInternal(heartbeat)
                  /\ \E ok \in WriteOutcomes(conn) :
                        IF ok
                        THEN /\ Goto(t, "internal_recv")
                             /\ UNCHANGED <<hs, connected>>
                        ELSE /\ hs' = "write_err"
                             /\ Return(t, ConnectReturn("write_err"))
                             /\ connected' = (ConnectReturn("write_err") = "ok")
    /\ UNCHANGED <<conn, ssl, processingUsing, cancel, recvMsg, reqRec, loginId,
                   capResp, counters, closes, loops, timedOut, fault, idVars, pinVars>>

\* sendInternal from its receiveMessage on, and the return of Connect.
sendInternal(t) ==
    /\ Alive /\ pc[t] = "internal_recv"
    /\ \E o \in ReceiveOutcomes(conn, inbox) :
          /\ inbox' = Consumed(inbox, o)
          /\ capResp' = o.frame
          /\ hs' = sendInternalResult(o)
          /\ Return(t, ConnectReturn(hs'))
          /\ connected' = (ConnectReturn(hs') = "ok")
    /\ UNCHANGED <<conn, ssl, msgID, processingUsing, cancel, recvMsg, reqRec,
                   loginId, loginResp, capId, capBody, counters, closes, loops,
                   timedOut, fault, idVars, pinVars>>

\* The peer puts one more frame on the stream.
PeerSend ==
    /\ Alive /\ conn = "open"
    /\ Len(inbox) < MaxInbox
    /\ \E f \in PeerFrames(msgID) : inbox' = Append(inbox, f)
    /\ UNCHANGED <<conn, ssl, msgID, processingUsing, cancel, recvMsg, callRec,
                   reqRec, connRec, connected, counters, closes, loops,
                   timedOut, fault, idVars, pinVars>>

\* ------------------------------------------------------ request operations

\* What a request operation returns when it does not wait for confirmation
\* (g.processingUsing was seen set), given whether its write succeeded.
\* Notify and Tweet have already returned on a failed write.
SkipReturn(ok) == IF ok THEN "ok" ELSE "write_err"

\* Whether the operation returns right after a failed write: Notify and
\* Tweet test err after sendString; EMail does not test the err of
\* sendMessage before it reads g.processingUsing.
ReturnsOnWriteError(o) == o \in {"Notify", "Tweet"}

\* What a request operation returns for the outcome o of its receiveMessage:
\* the read error, or an error for a status other than BLYNK_SUCCESS.
confirmResult(o) ==
    IF o.err # "none" THEN o.err
    ELSE IF o.frame.Length # BLYNK_SUCCESS THEN "status_err"
    ELSE "ok"

\* Notify, Tweet or EMail (o) up to its blocking read: the id allocation, the
\* write of the request frame and the test of g.processingUsing.
requestSend(t, o) ==
    /\ Alive /\ Idle(t) /\ connected /\ ~InConnect
    /\ msgID < MaxMsg
    /\ msgID' = getMessageID(msgID)
    /\ resp' = NoFrame
    /\ DropConnRec
    /\ \E ok \in WriteOutcomes(conn), using \in FlagReads :
          /\ reqId' = msgID'
          /\ wrote' = ok
          /\ atCheck' = processingUsing
          /\ IF ~ok /\ ReturnsOnWriteError(o) THEN Call(t, o, "idle", "write_err")
             ELSE IF using THEN Call(t, o, "idle", SkipReturn(ok))
             ELSE Call(t, o, "req_recv", "pending")
    /\ UNCHANGED <<conn, ssl, processingUsing, cancel, recvMsg, inbox,
                   connected, counters, closes, loops, timedOut, fault, idVars, pinVars>>

Notify(t) == requestSend(t, "Notify")
Tweet(t) == requestSend(t, "Tweet")
EMail(t) == requestSend(t, "EMail")

\* The standalone receiveMessage of Notify, Tweet and EMail and their return.
requestReceive(t) ==
    /\ Alive /\ pc[t] = "req_recv"
    /\ \E o \in ReceiveOutcomes(conn, inbox) :
          /\ inbox' = Consumed(inbox, o)
          /\ resp' = o.frame
          /\ timedOut' = IF o.err = "timeout" THEN timedOut \cup {reqId}
                         ELSE timedOut
          /\ Return(t, confirmResult(o))
    /\ UNCHANGED <<conn, ssl, msgID, processingUsing, cancel, recvMsg, reqId,
                   wrote, atCheck, connRec, connected, counters, closes, loops,
                   fault, idVars, pinVars>>

\* ------------------------------------------------------------- DigitalWrite

\* The body of a BlynkMessage is the list of its fields; AddString, AddInt
\* and AddBool each append one field.
AddString(body, text) == Append(body, text)
AddInt(body, n) == Append(body, Itoa(n))
AddBool(body, b) == Append(body, IF b THEN <<"1">> ELSE <<"0">>)

\* The bytes of a body on the wire, and Body.Len(): the number of those
\* bytes, every field's plus one separator between two fields.
BodyBytes(body) == Join(body, NUL)

RECURSIVE FieldBytes(_)
FieldBytes(body) ==
    IF body = <<>> THEN 0 ELSE Len(Head(body)) + FieldBytes(Tail(body))

BodyLen(body) ==
    IF body = <<>> THEN 0 ELSE FieldBytes(body) + Len(body) - 1

\* The pins DigitalWrite is called with.
WritePins == {-1, 0, 4, 13, 255}

\* DigitalWrite that adds the value before the pin.
DigitalWriteBodySwapped(pin, value) ==
    AddInt(AddBool(AddString(<<>>, <<"d", "w">>), value), pin)

\* The body DigitalWrite builds.
DigitalWriteBody(pin, value) ==
    AddBool(AddInt(AddString(<<>>, <<"d", "w">>), pin), value)

\* DigitalWrite(pin, value): the id allocation, the frame and its write.
DigitalWrite(t, pin, value) ==
    /\ Alive /\ Idle(t) /\ connected /\ ~InConnect
    /\ msgID < MaxMsg
    /\ msgID' = getMessageID(msgID)
    /\ DropConnRec
    /\ LET body == DigitalWriteBody(pin, value)
           msg == [Command |-> BLYNK_CMD_HARDWARE, MessageId |-> msgID',
                   Length |-> BodyLen(body), body |-> BodyBytes(body)]
       IN  \E ok \in WriteOutcomes(conn) :
              /\ dw' = [pin |-> pin, value |-> value, before |-> msgID,
                        sent |-> IF ok THEN <<msg>> ELSE <<>>]
              /\ Call(t, "DigitalWrite", "idle",
                      IF ok THEN "ok" ELSE "write_err")
    /\ UNCHANGED <<conn, ssl, processingUsing, cancel, recvMsg, inbox, reqRec,
                   connected, counters, closes, loops, timedOut, fault, idVars,
                   heartbeat, registry, dispatched>>

\* ---------------------------------------------------------------- pipeline

\* Processing up to the receiver loop: the flag is set and the keepAlive and
\* processor goroutines are started.
Processing(t) ==
    /\ Alive /\ Idle(t) /\ connected
    /\ processings < MaxProcessings
    /\ processings' = processings + 1
    /\ processingUsing' = TRUE
    /\ kaLive' = kaLive + 1
    /\ prLive' = prLive + 1
    /\ Call(t, "Processing", "receiver", "pending")
    /\ DropConnRec /\ DropReqRec
    /\ UNCHANGED <<conn, ssl, msgID, cancel, recvMsg, inbox, connected,
                   connects, stopCalls, closes, timedOut, fault, idVars, pinVars>>

\* One frame read by the receiver loop and put on g.recvMsg.  A send on a
\* closed channel panics; a send on a full channel blocks.
receiverRead(t) ==
    /\ Alive /\ pc[t] = "receiver"
    /\ conn = "open" /\ inbox # <<>>
    /\ inbox' = Tail(inbox)
    /\ IF recvMsg.closed
       THEN /\ fault' = "send on closed channel"
            /\ UNCHANGED recvMsg
       ELSE /\ Len(recvMsg.q) < MaxQueue
            /\ recvMsg' = [recvMsg EXCEPT !.q = Append(@, Head(inbox))]
            /\ UNCHANGED fault
    /\ UNCHANGED <<conn, ssl, msgID, processingUsing, cancel, callRec, reqRec,
                   connRec, connected, counters, closes, loops, timedOut,
                   idVars, pinVars>>

\* The receiver loop ends, on cancellation or on a failed read, and
\* Processing returns: its deferred function clears the flag.
receiverExit(t) ==
    /\ Alive /\ pc[t] = "receiver"
    /\ \/ cancel = "closed"
       \/ \E o \in ReceiveOutcomes(conn, inbox) : o.err = "read_err"
    /\ processingUsing' = FALSE
    /\ Return(t, "ok")
    /\ UNCHANGED <<conn, ssl, msgID, cancel, recvMsg, inbox, reqRec, connRec,
                   connected, counters, closes, loops, timedOut, fault, idVars, pinVars>>

\* keepAlive, the ticker case: sendCommand(BLYNK_CMD_PING) allocates an id
\* and writes the ping; the result of the write is not looked at.
keepAlivePing ==
    /\ Alive /\ kaLive > 0
    /\ msgID < MaxMsg
    /\ msgID' = getMessageID(msgID)
    /\ UNCHANGED <<conn, ssl, processingUsing, cancel, recvMsg, inbox, callRec,
                   reqRec, connRec, connected, counters, closes, loops,
                   timedOut, fault, idVars, pinVars>>

\* keepAlive, the cancel case: a receive on the closed channel succeeds and
\* the goroutine returns.
keepAliveCancel ==
    /\ Alive /\ kaLive > 0
    /\ cancel = "closed"
    /\ kaLive' = kaLive - 1
    /\ UNCHANGED <<conn, ssl, msgID, processingUsing, cancel, recvMsg, inbox,
                   callRec, reqRec, connRec, connected, counters, closes,
                   prLive, timedOut, fault, idVars, pinVars>>

\* The processor takes the next frame off g.recvMsg.
processorTake ==
    /\ Alive /\ prLive > 0
    /\ recvMsg.q # <<>>
    /\ recvMsg' = [recvMsg EXCEPT !.q = Tail(@)]
    /\ UNCHANGED <<conn, ssl, msgID, processingUsing, cancel, inbox, callRec,
                   reqRec, connRec, connected, counters, closes, loops,
                   timedOut, fault, idVars, pinVars>>

\* The processor ends once g.recvMsg is closed and drained.
processorExit ==
    /\ Alive /\ prLive > 0
    /\ recvMsg.closed /\ recvMsg.q = <<>>
    /\ prLive' = prLive - 1
    /\ UNCHANGED <<conn, ssl, msgID, processingUsing, cancel, recvMsg, inbox,
                   callRec, reqRec, connRec, connected, counters, closes,
                   kaLive, timedOut, fault, idVars, pinVars>>

\* ------------------------------------------------------- Stop, Disconnect

\* Whether a method call on g.conn panics: a nil interface has no method to
\* call, and the methods of a nil *tls.Conn dereference it.  A nil
\* *net.TCPConn answers every call with an error instead.
ConnCallPanics(c) == c \in {"nil", "nilTLS"}

\* What Disconnect does to g.conn and returns ("panic": it does not return):
\* an error when g.conn is nil, else the result of g.conn.Close().
DisconnectResult(c) ==
    IF c = "nil" THEN "nil_err"
    ELSE IF ConnCallPanics(c) THEN "panic"
    ELSE IF c = "open" THEN "ok"
    ELSE "close_err"

disconnectEffect(r) ==
    /\ conn' = IF r = "ok" THEN "closed" ELSE conn
    /\ closes' = IF r = "ok" THEN closes + 1 ELSE closes
    /\ fault' = IF r = "panic" THEN "nil pointer dereference" ELSE fault

Disconnect(t) ==
    /\ Alive /\ Idle(t) /\ ~InConnect
    /\ LET r == DisconnectResult(conn)
       IN  /\ disconnectEffect(r)
           /\ Call(t, "Disconnect", IF r = "panic" THEN "panic" ELSE "idle", r)
    /\ DropConnRec
    /\ IF t = Main THEN DropReqRec ELSE UNCHANGED reqRec
    /\ UNCHANGED <<ssl, msgID, processingUsing, cancel, recvMsg, inbox,
                   connected, counters, loops, timedOut, idVars, pinVars>>

\* Stop, first statement: g.conn.SetReadDeadline(...), its result dropped.
Stop(t) ==
    /\ Alive /\ Idle(t) /\ ~InConnect
    /\ stopCalls < MaxStops
    /\ stopCalls' = stopCalls + 1
    /\ IF ConnCallPanics(conn)
       THEN /\ fault' = "nil pointer dereference"
            /\ Call(t, "Stop", "panic", "panic")
       ELSE /\ Call(t, "Stop", "stop_cancel", "pending")
            /\ UNCHANGED fault
    /\ DropConnRec
    /\ IF t = Main THEN DropReqRec ELSE UNCHANGED reqRec
    /\ UNCHANGED <<conn, ssl, msgID, processingUsing, cancel, recvMsg, inbox,
                   connected, connects, processings, closes, loops, timedOut,
                   idVars, pinVars>>

\* Stop: close(g.cancel).  Closing a closed channel panics.
stopCloseCancel(t) ==
    /\ Alive /\ pc[t] = "stop_cancel"
    /\ IF cancel = "closed"
       THEN /\ fault' = "close of closed channel"
            /\ Return(t, "panic")
            /\ UNCHANGED cancel
       ELSE /\ cancel' = "closed"
            /\ Goto(t, "stop_recvMsg")
            /\ UNCHANGED fault
    /\ UNCHANGED <<conn, ssl, msgID, processingUsing, recvMsg, inbox, reqRec,
                   connRec, connected, counters, closes, loops, timedOut,
                   idVars, pinVars>>

\* Stop: close(g.recvMsg), after which Stop sleeps.
stopCloseRecvMsg(t) ==
    /\ Alive /\ pc[t] = "stop_recvMsg"
    /\ IF recvMsg.closed
       THEN /\ fault' = "close of closed channel"
            /\ Return(t, "panic")
            /\ UNCHANGED recvMsg
       ELSE /\ recvMsg' = [recvMsg EXCEPT !.closed = TRUE]
            /\ Goto(t, "stop_sleep")
            /\ UNCHANGED fault
    /\ UNCHANGED <<conn, ssl, msgID, processingUsing, cancel, inbox, reqRec,
                   connRec, connected, counters, closes, loops, timedOut,
                   idVars, pinVars>>

\* Stop, after the sleep: return g.Disconnect().
stopDisconnect(t) ==
    /\ Alive /\ pc[t] = "stop_sleep"
    /\ LET r == DisconnectResult(conn)
       IN  /\ disconnectEffect(r)
           /\ Return(t, r)
    /\ UNCHANGED <<ssl, msgID, processingUsing, cancel, recvMsg, inbox, reqRec,
                   connRec, connected, counters, loops, timedOut, idVars, pinVars>>

\* ------------------------------------------------------------ getMessageID

\* getMessageID without the mutex: Lock() never makes a caller wait.
CanLockUnguarded == TRUE

\* g.lock.Lock() returns only while no goroutine holds the mutex.
CanLock == lock = "free"

\* Allocations begun so far in a run of SpecIds.
Begun == Len(issuedLog) + Cardinality({w \in Workers : wpc[w] # "idle"})

\* Allocator w calls getMessageID and arrives at g.lock.Lock().
enterGetMessageID(w) ==
    /\ wpc[w] = "idle"
    /\ Begun < MaxAllocs
    /\ wpc' = [wpc EXCEPT ![w] = "waiting"]
    /\ UNCHANGED <<msgID, lock, issuedLog>>
    /\ UNCHANGED engineVars

\* getMessageID by allocator w, statement by statement: g.lock.Lock() ...
lockAcquire(w) ==
    /\ wpc[w] = "waiting"
    /\ CanLock
    /\ lock' = w
    /\ wpc' = [wpc EXCEPT ![w] = "locked"]
    /\ UNCHANGED <<msgID, issuedLog>>
    /\ UNCHANGED engineVars

\* ... g.msgID++ and the comparison with 0xFFFF ...
increment(w) ==
    /\ wpc[w] = "locked"
    /\ msgID' = getMessageID(msgID)
    /\ wpc' = [wpc EXCEPT ![w] = "bumped"]
    /\ UNCHANGED <<lock, issuedLog>>
    /\ UNCHANGED engineVars

\* ... return g.msgID, and the deferred g.lock.Unlock().
returnID(w) ==
    /\ wpc[w] = "bumped"
    /\ issuedLog' = Append(issuedLog, msgID)
    /\ lock' = "free"
    /\ wpc' = [wpc EXCEPT ![w] = "idle"]
    /\ UNCHANGED msgID
    /\ UNCHANGED engineVars

\* One whole call of getMessageID by a goroutine running alone; issuedLog
\* keeps the id it returned and the one returned before it.
allocate ==
    /\ msgID' = getMessageID(msgID)
    /\ issuedLog' = IF issuedLog = <<>> THEN <<msgID'>>
                     ELSE <<issuedLog[Len(issuedLog)], msgID'>>
    /\ UNCHANGED <<lock, wpc>>
    /\ UNCHANGED engineVars

\* ---------------------------------------------------------- handler registry

\* Pins handlers are registered for, and the callbacks a caller may pass.
Pins == 0..MaxPin
Callbacks == {"f", "g"}

\* What a lookup m[pin] yields when the map m has no entry for the pin.
NoHandler == "nil"

\* The callback the map m holds for pin.
Registered(m, pin) == IF pin \in DOMAIN m THEN m[pin] ELSE NoHandler

\* m[pin] = fn that leaves an entry the map already has as it is.
mapAssignKeepFirst(m, pin, fn) ==
    IF pin \in DOMAIN m THEN m
    ELSE [q \in DOMAIN m \cup {pin} |-> IF q = pin THEN fn ELSE m[q]]

\* m[pin] = fn on a Go map.
mapAssign(m, pin, fn) ==
    [q \in DOMAIN m \cup {pin} |-> IF q = pin THEN fn ELSE m[q]]

\* delete(m, pin) that leaves the entry in the map.
mapDeleteKeeps(m, pin) == m

\* delete(m, pin) on a Go map.
mapDelete(m, pin) == [q \in DOMAIN m \ {pin} |-> m[q]]

\* A registry call as regLog records it.
RegCall(kind, o, pin, fn) == [kind |-> kind, op |-> o, pin |-> pin, fn |-> fn]

\* AddReaderHandler on an engine that keeps one map for both kinds.
AddReaderHandlerShared(pin, fn) ==
    /\ Alive /\ lock = "free"
    /\ Len(regLog) < MaxRegOps
    /\ readers' = mapAssign(readers, pin, fn)
    /\ writers' = mapAssign(writers, pin, fn)
    /\ regLog' = Append(regLog, RegCall("reader", "Add", pin, fn))
    /\ UNCHANGED <<coreVars, msgID, idVars, heartbeat, dispatched, dw>>

\* The four registry calls; each holds g.lock from its first statement to
\* its return.
AddReaderHandler(pin, fn) ==
    /\ Alive /\ lock = "free"
    /\ Len(regLog) < MaxRegOps
    /\ readers' = mapAssign(readers, pin, fn)
    /\ regLog' = Append(regLog, RegCall("reader", "Add", pin, fn))
    /\ UNCHANGED <<coreVars, msgID, idVars, heartbeat, writers, dispatched, dw>>

DeleteReaderHandler(pin) ==
    /\ Alive /\ lock = "free"
    /\ Len(regLog) < MaxRegOps
    /\ readers' = mapDelete(readers, pin)
    /\ regLog' = Append(regLog, RegCall("reader", "Delete", pin, NoHandler))
    /\ UNCHANGED <<coreVars, msgID, idVars, heartbeat, writers, dispatched, dw>>

AddWriterHandler(pin, fn) ==
    /\ Alive /\ lock = "free"
    /\ Len(regLog) < MaxRegOps
    /\ writers' = mapAssign(writers, pin, fn)
    /\ regLog' = Append(regLog, RegCall("writer", "Add", pin, fn))
    /\ UNCHANGED <<coreVars, msgID, idVars, heartbeat, readers, dispatched, dw>>

DeleteWriterHandler(pin) ==
    /\ Alive /\ lock = "free"
    /\ Len(regLog) < MaxRegOps
    /\ writers' = mapDelete(writers, pin)
    /\ regLog' = Append(regLog, RegCall("writer", "Delete", pin, NoHandler))
    /\ UNCHANGED <<coreVars, msgID, idVars, heartbeat, readers, dispatched, dw>>

\* ---------------------------------------------------------------- dispatch

\* Operation tags of a push: a pin write, a request to read a pin.
WriteTags == { <<"v", "w">>, <<"d", "w">> }
ReadTags == { <<"v", "r">>, <<"d", "r">> }

\* The values a write push may deliver.
PushValues == { <<"0">>, <<"1">> }

\* A frame with a body, as the peer sends it.
PushFrame(c, id, body) ==
    [Command |-> c, MessageId |-> id, Length |-> BodyLen(body),
     body |-> BodyBytes(body)]

\* The pushes the peer may send, numbered by the peer: a write of a value
\* to a pin, a request to read a pin.
PeerPushes ==
    { PushFrame(BLYNK_CMD_HARDWARE, 1, <<tag, Itoa(pin), value>>) :
          tag \in WriteTags, pin \in Pins, value \in PushValues }
    \cup { PushFrame(BLYNK_CMD_HARDWARE_SYNC, 1, <<tag, Itoa(pin)>>) :
              tag \in ReadTags, pin \in Pins }

\* The peer pushes a frame to the logged-in engine.
PeerPush ==
    /\ Alive /\ conn = "open" /\ connected /\ ~InConnect
    /\ Len(inbox) < MaxInbox
    /\ \E f \in PeerPushes : inbox' = Append(inbox, f)
    /\ UNCHANGED <<conn, ssl, msgID, processingUsing, cancel, recvMsg, callRec,
                   reqRec, connRec, connected, counters, closes, loops,
                   timedOut, fault, idVars, pinVars>>

\* One call of a handler by the processor.
Invocation(kind, fn, pin, value) ==
    [kind |-> kind, fn |-> fn, pin |-> pin, value |-> value]

\* The operation tag, pin and value of a push, NoPush for any other frame.
ParsePush(msg) ==
    IF \/ msg.Command \notin {BLYNK_CMD_HARDWARE, BLYNK_CMD_HARDWARE_SYNC}
       \/ "body" \notin DOMAIN msg
    THEN NoPush
    ELSE LET f == Split(msg.body, NUL)
         IN  IF Len(f) < 2 THEN NoPush
             ELSE [tag |-> f[1], pin |-> Atoi(f[2]),
                   value |-> IF Len(f) >= 3 THEN f[3] ELSE <<>>]

\* The handler calls the processor makes for the parsed push p with the
\* registries r (readers) and w (writers): the callback of the matching
\* kind registered for the pin, none on a miss.
Dispatch(p, r, w) ==
    IF p.tag \in WriteTags /\ p.pin \in DOMAIN w
    THEN <<Invocation("writer", w[p.pin], p.pin, p.value)>>
    ELSE IF p.tag \in ReadTags /\ p.pin \in DOMAIN r
    THEN <<Invocation("reader", r[p.pin], p.pin, <<>>)>>
    ELSE <<>>

\* The processor takes the next frame off g.recvMsg, classifies it and
\* calls the handler registered for it; the registries are read under
\* g.lock.  The value a read handler produced is sent back in a frame of
\* its own, which takes the next message id.
processorDispatch ==
    /\ Alive /\ prLive > 0
    /\ recvMsg.q # <<>>
    /\ lock = "free"
    /\ LET push == ParsePush(Head(recvMsg.q))
           calls == Dispatch(push, readers, writers)
           answers == calls # <<>> /\ calls[1].kind = "reader"
       IN  /\ answers => msgID < MaxMsg
           /\ msgID' = IF answers THEN getMessageID(msgID) ELSE msgID
           /\ dispatched' = calls
    /\ recvMsg' = [recvMsg EXCEPT !.q = Tail(@)]
    /\ UNCHANGED <<conn, ssl, processingUsing, cancel, inbox, callRec, reqRec,
                   connRec, connected, counters, closes, loops, timedOut,
                   fault, idVars, heartbeat, registry, dw>>

\* ---------------------------------------------------------- specifications

Next ==
    \/ Connect(Main) \/ auth(Main) \/ sendInternal(Main)
    \/ Notify(User) \/ Tweet(User) \/ EMail(User) \/ requestReceive(User)
    \/ Processing(Main) \/ receiverRead(Main) \/ receiverExit(Main)
    \/ Disconnect(User)
    \/ \E t \in Threads :
          \/ Stop(t) \/ stopCloseCancel(t) \/ stopCloseRecvMsg(t)
          \/ stopDisconnect(t)
    \/ keepAlivePing \/ keepAliveCancel
    \/ processorTake \/ processorExit
    \/ PeerSend

\* The engine, its callers and the peer.
Spec == Init /\ [][Next]_vars

\* Connect and Disconnect against the peer, nothing else running.
NextConnect ==
    \/ Connect(Main) \/ auth(Main) \/ sendInternal(Main)
    \/ Disconnect(User)
    \/ PeerSend

SpecConnect == Init /\ [][NextConnect]_vars

\* The counter values a run of SpecIds starts from: the fresh engine's, and
\* the value the counter has WrapLead allocations before it overflows.
IdStarts == {0, Uint16Mod - WrapLead}

InitIds == \E m \in IdStarts : InitWith(m)

NextIds ==
    \E w \in Workers :
        enterGetMessageID(w) \/ lockAcquire(w) \/ increment(w) \/ returnID(w)

\* Concurrent callers of getMessageID: the keep-alive loop, a request
\* operation and the processor's handler-triggered sends.
SpecIds == InitIds /\ [][NextIds]_vars

\* One goroutine allocating ids one after the other on a fresh engine.
SpecWrap == Init /\ [][allocate]_vars

\* The pipeline and one caller of Stop: Main connects and runs Processing,
\* User calls Stop.
NextShutdown ==
    \/ Connect(Main) \/ auth(Main) \/ sendInternal(Main)
    \/ Processing(Main) \/ receiverRead(Main) \/ receiverExit(Main)
    \/ Stop(User) \/ stopCloseCancel(User) \/ stopCloseRecvMsg(User)
    \/ stopDisconnect(User)
    \/ keepAlivePing \/ keepAliveCancel
    \/ processorTake \/ processorExit
    \/ PeerSend

\* Every goroutine that can take a step is scheduled in the end: a loop whose
\* exit is possible exits, the processor drains the queue, and a call of
\* Stop runs to its return.
FairShutdown ==
    /\ WF_vars(receiverExit(Main))
    /\ WF_vars(keepAliveCancel)
    /\ WF_vars(processorTake) /\ WF_vars(processorExit)
    /\ WF_vars(stopCloseCancel(User)) /\ WF_vars(stopCloseRecvMsg(User))
    /\ WF_vars(stopDisconnect(User))

SpecShutdown == Init /\ [][NextShutdown]_vars /\ FairShutdown

\* The heartbeat intervals a run of SpecInternal may start with.
Beats == 0..MaxBeat

InitBeats == \E h \in Beats : InitEngine(0, h)

\* Connect against the peer for every heartbeat interval g.heartbeat may hold.
SpecInternal == InitBeats /\ [][NextConnect]_vars

NextRegistry ==
    \E pin \in Pins :
        \/ \E fn \in Callbacks : AddReaderHandler(pin, fn)
        \/ DeleteReaderHandler(pin)
        \/ \E fn \in Callbacks : AddWriterHandler(pin, fn)
        \/ DeleteWriterHandler(pin)

\* Callers adding and deleting handlers on a fresh engine.
SpecRegistry == Init /\ [][NextRegistry]_vars

\* Connect and Disconnect against the peer, and a caller of DigitalWrite.
NextWrite ==
    \/ Connect(Main) \/ auth(Main) \/ sendInternal(Main)
    \/ \E pin \in WritePins, value \in BOOLEAN : DigitalWrite(User, pin, value)
    \/ Disconnect(User)
    \/ PeerSend

SpecWrite == Init /\ [][NextWrite]_vars

\* The pipeline fed by the peer's pushes while a caller adds and deletes
\* handlers.
NextDispatch ==
    \/ Connect(Main) \/ auth(Main) \/ sendInternal(Main)
    \/ Processing(Main) \/ receiverRead(Main)
    \/ processorDispatch
    \/ /\ Len(regLog) < MaxDispatchRegOps
       /\ \E pin \in Pins :
             \/ \E fn \in Callbacks : AddReaderHandler(pin, fn)
             \/ DeleteReaderHandler(pin)
             \/ \E fn \in Callbacks : AddWriterHandler(pin, fn)
             \/ DeleteWriterHandler(pin)
    \/ PeerSend \/ PeerPush

SpecDispatch == Init /\ [][NextDispatch]_vars

\* ------------------------------------------------------------------ claims

RequestOps == {"Notify", "Tweet", "EMail"}

\* The login response auth received is the success response to the login
\* frame that was sent.
LoginAccepted ==
    /\ loginResp # NoFrame
    /\ loginResp.MessageId = loginId
    /\ loginResp.Command = BLYNK_CMD_RESPONSE
    /\ loginResp.Length = BLYNK_SUCCESS

\* C1: Connect gets past authentication (sends the capability announcement,
\* returns nil) only if it received a response frame carrying the id of the
\* login frame it sent and the success status; with no such response (none
\* at all, a read error, another id, another command, another status) it
\* returns an error.
C1_ConnectOnlyAfterLogin ==
    /\ (op[Main] = "Connect" /\ (ret[Main] = "ok" \/ pc[Main] = "internal_recv"))
          => LoginAccepted
    /\ (op[Main] = "Connect" /\ pc[Main] = "idle" /\ ~LoginAccepted)
          => ret[Main] \in {"resolve_err", "dial_err", "write_err", "timeout",
                            "read_err", "auth_err"}

\* C2: when the capability-announcement exchange after a successful login
\* fails (write error, read error or timeout, status other than success),
\* Connect returns an error.
C2_HandshakeFailureReported ==
    (op[Main] = "Connect" /\ pc[Main] = "idle" /\ hs \notin {"none", "ok"})
        => ret[Main] # "ok"

\* C3: when Connect fails during authentication the engine holds no open
\* transport once Connect has returned.
C3_AuthFailureLeavesNoTransport ==
    (op[Main] = "Connect" /\ pc[Main] = "idle"
     /\ ret[Main] \in {"write_err", "timeout", "read_err", "auth_err"})
        => conn # "open"

\* C4: every id getMessageID issues lies in 1..65535, never 0, and the id
\* issued after 65535 is 1.
C4_IssuedIdsInRange ==
    /\ \A i \in DOMAIN issuedLog : issuedLog[i] \in 1..MaxUint16
    /\ (Len(issuedLog) = 2 /\ issuedLog[1] = MaxUint16) => issuedLog[2] = 1

\* C5: under any interleaving of concurrent allocators each id issued is the
\* one issued before it plus one, modulo the wrap of the 16-bit counter, and
\* no id is issued twice within a window shorter than the counter's period.
C5_IdsConsecutive ==
    /\ \A i \in 1..(Len(issuedLog) - 1) :
          issuedLog[i + 1] = (issuedLog[i] + 1) % Uint16Mod
    /\ \A i, j \in DOMAIN issuedLog : i # j => issuedLog[i] # issuedLog[j]

\* Three allocators have each been issued an id, and the run crossed the
\* counter's wrap.
C5_Witness ==
    /\ Len(issuedLog) >= 3
    /\ \E i \in 1..(Len(issuedLog) - 1) : issuedLog[i] = MaxUint16
    /\ \E w, x \in Workers : wpc[w] = "locked" /\ wpc[x] = "waiting"

\* C6: a request operation that waits for its confirmation, and the
\* capability announcement, take a frame as that confirmation only if the
\* frame carries the id of the request they sent.
C6_ConfirmationMatchesRequest ==
    /\ (op[User] \in RequestOps /\ ret[User] = "ok" /\ resp # NoFrame)
          => resp.MessageId = reqId
    /\ (op[Main] = "Connect" /\ hs = "ok") => capResp.MessageId = capId

\* C7: a request whose response read times out returns the timeout error
\* and leaves the transport as it is, and a response carrying the id of a
\* timed-out request is never taken as the confirmation of a later request.
C7_LateResponseDiscarded ==
    [][ /\ (pc[User] = "req_recv" /\ reqId \in timedOut')
            => (ret'[User] = "timeout" /\ conn' = conn)
        /\ (pc[User] = "req_recv" /\ ret'[User] = "ok")
            => resp'.MessageId \notin timedOut ]_vars

\* C8: issued while the pipeline has never been started, Notify, Tweet and
\* EMail return success exactly when the request frame was written and a
\* response with the success status was received.
C8_StandaloneErrorsReported ==
    (op[User] \in RequestOps /\ pc[User] = "idle" /\ processings = 0)
        => (ret[User] = "ok"
               <=> (wrote /\ resp # NoFrame /\ resp.Length = BLYNK_SUCCESS))

\* C9: a request operation that finds the pipeline running returns once its
\* frame is written, and the receiver loop and a request operation's own
\* response read are never both reading from the transport.
C9_NoConcurrentReaders ==
    /\ (op[User] \in RequestOps /\ atCheck /\ wrote)
          => (pc[User] = "idle" /\ resp = NoFrame)
    /\ ~(pc[Main] = "receiver" /\ pc[User] = "req_recv")

\* C10: a second call of Stop, after or racing the first, does not fault:
\* no channel is closed a second time.
C10_StopTwiceSafe ==
    stopCalls >= 2 => fault # "close of closed channel"

\* The keep-alive, processor and receiver loops are all running.
LoopsActive == kaLive > 0 /\ prLive > 0 /\ pc[Main] = "receiver"

\* All three loops have ended: the receiver loop has, so Processing has
\* returned to its caller.
LoopsDone == kaLive = 0 /\ prLive = 0 /\ pc[Main] # "receiver"

\* C11: once Stop is invoked while the keep-alive, processor and receiver
\* loops are all running, every one of the three loops ends and Processing
\* returns to its caller (unless Stop is called a second time, see C10).
C11_StopEndsAllLoops ==
    (LoopsActive /\ pc[User] = "stop_cancel" /\ stopCalls = 1)
        ~> (LoopsDone \/ stopCalls >= 2)

\* C12: the transport of a connection is closed exactly once: no call of
\* Stop or Disconnect, in any order and however it races with the receiver's
\* read error, calls Close on a transport that was closed before.
C12_TransportClosedOnce ==
    \A t \in Threads :
        op[t] \in {"Stop", "Disconnect"} => ret[t] # "close_err"

\* C17: within a Connect call the capability-announcement frame is sent only
\* after the success response to the login frame was received, and is not
\* sent when the transport could not be opened or authentication failed.
C17_CapabilityOnlyAfterLogin ==
    /\ (op[Main] = "Connect" /\ capId # 0) => LoginAccepted
    /\ (op[Main] = "Connect" /\ pc[Main] = "idle"
        /\ ret[Main] \in {"resolve_err", "dial_err", "write_err", "timeout",
                          "read_err", "auth_err"})
          => capId = 0

\* C18: no frame is enqueued on g.recvMsg after it has been closed: the
\* queue is closed only once the receiver loop has stopped enqueuing.
C18_NoEnqueueOnClosedQueue == fault # "send on closed channel"

\* The engine holds no transport: g.conn is nil (Connect was never called, or
\* failed to resolve) or the nil connection a failed dial returned.
NoTransport == conn \in {"nil", "nilTLS", "nilTCP"}

\* C20: Stop called on an engine that holds no transport does not fault and
\* returns an error.
C20_StopWithoutTransport ==
    \A t \in Threads :
        (op[t] = "Stop" /\ NoTransport)
            => (fault = "none" /\ (pc[t] = "idle" => ret[t] = "nil_err"))

\* Whether text is the decimal text of some natural number.
IsDecimal(text) ==
    /\ text # <<>>
    /\ \A i \in DOMAIN text : \E d \in DOMAIN Digits : text[i] = Digits[d]

\* Whether k is the integer nearest to h tenths, a tie going to the even one.
Nearest(k, h) ==
    /\ 10 * k - h <= 5 /\ h - 10 * k <= 5
    /\ (10 * k - h = 5 \/ h - 10 * k = 5) => k % 2 = 0

\* C16 as stated: the body of the capability-announcement frame is exactly
\* the seven NUL-joined fields protocol version, "buff-in", buffer size,
\* "h-beat", heartbeat seconds as integer text, "dev", platform tag.
C16_InternalBodyAsStated ==
    capBody # <<>> =>
        LET f == Split(capBody, NUL)
        IN  /\ Len(f) = 7
            /\ f[1] = Version
            /\ f[2] = <<"b", "u", "f", "f", "-", "i", "n">>
            /\ IsDecimal(f[3])
            /\ f[4] = <<"h", "-", "b", "e", "a", "t">>
            /\ IsDecimal(f[5])
            /\ f[6] = <<"d", "e", "v">>

\* C16, amended: the body of the capability-announcement frame is exactly
\* the eight NUL-joined fields "ver", protocol version, "buff-in", buffer
\* size "1024", "h-beat", the heartbeat interval in seconds rounded to the
\* nearest integer (a tie to the even one) as decimal text, "dev", "go".
C16_InternalBodyFields ==
    capBody # <<>> =>
        LET f == Split(capBody, NUL)
        IN  /\ Len(f) = 8
            /\ f[1] = <<"v", "e", "r">>
            /\ f[2] = <<"0", ".", "0", ".", "7">>
            /\ f[3] = <<"b", "u", "f", "f", "-", "i", "n">>
            /\ f[4] = <<"1", "0", "2", "4">>
            /\ f[5] = <<"h", "-", "b", "e", "a", "t">>
            /\ \E k \in 0..(MaxBeat + 1) :
                  Nearest(k, heartbeat) /\ f[6] = Itoa(k)
            /\ f[7] = <<"d", "e", "v">>
            /\ f[8] = <<"g", "o">>

\* A capability announcement was sent with a heartbeat interval that lies
\* half-way between two whole seconds.
C16_Witness ==
    /\ capBody # <<>>
    /\ heartbeat % 10 = 5 /\ heartbeat > 10

\* What the registry calls recorded in log leave registered for pin in the
\* registry of the given kind: the callback of the last call for that pin
\* if it was an Add, nothing if it was a Delete or there was none.
Replay(log, kind, pin) ==
    LET calls == {i \in DOMAIN log : log[i].kind = kind /\ log[i].pin = pin}
    IN  IF calls = {} THEN NoHandler
        ELSE LET last == CHOOSE i \in calls : \A j \in calls : j <= i
             IN  IF log[last].op = "Add" THEN log[last].fn ELSE NoHandler

\* C14: after any sequence of Add and Delete calls the callback registered
\* for a pin, in either registry, is the one of the most recent Add for the
\* pin if no Delete for the pin followed it, and none otherwise.
C14_LastRegistrationWins ==
    \A pin \in Pins :
        /\ Registered(readers, pin) = Replay(regLog, "reader", pin)
        /\ Registered(writers, pin) = Replay(regLog, "writer", pin)

\* A pin had a callback registered, replaced by another, and deleted.
C14_Witness ==
    \E i, j, k \in DOMAIN regLog :
        /\ i < j /\ j < k
        /\ regLog[i].kind = regLog[j].kind /\ regLog[j].kind = regLog[k].kind
        /\ regLog[i].pin = regLog[j].pin /\ regLog[j].pin = regLog[k].pin
        /\ regLog[i].op = "Add" /\ regLog[j].op = "Add"
        /\ regLog[i].fn # regLog[j].fn
        /\ regLog[k].op = "Delete"

\* C19: a registry call for one kind and pin leaves the registry of the
\* other kind, the entries of every other pin and the message-id counter as
\* they were.
C19_RegistriesIndependent ==
    [][ regLog' # regLog =>
          LET call == regLog'[Len(regLog')]
              others == Pins \ {call.pin}
          IN  /\ msgID' = msgID
              /\ call.kind = "reader" =>
                    /\ writers' = writers
                    /\ \A q \in others :
                          Registered(readers', q) = Registered(readers, q)
              /\ call.kind = "writer" =>
                    /\ readers' = readers
                    /\ \A q \in others :
                          Registered(writers', q) = Registered(writers, q) ]_vars

\* A pin holds a read handler and a write handler at the same time, the
\* read handler registered last.
C19_Witness ==
    \E pin \in Pins :
        /\ pin \in DOMAIN readers /\ pin \in DOMAIN writers
        /\ readers[pin] # writers[pin]
        /\ regLog[Len(regLog)] = RegCall("reader", "Add", pin, readers[pin])

\* Whether text is the decimal text of the integer n: its digits, a minus
\* sign before them when n is negative, no leading zero.
IsDecimalOf(text, n) ==
    LET digits == IF text # <<>> /\ text[1] = "-" THEN Tail(text) ELSE text
    IN  /\ IsDecimal(digits)
        /\ (text[1] = "-") <=> (n < 0)
        /\ Len(digits) > 1 => digits[1] # "0"
        /\ Atoi(text) = n

\* C15: DigitalWrite(n, v) on a Ready connection writes exactly one frame:
\* its command is hardware, its body fields are "dw", the decimal text of
\* n and "1" or "0" for v, in that order, its length field is the number of
\* bytes of the body, and its message id is the id allocated by this call.
C15_DigitalWriteFrame ==
    op[User] = "DigitalWrite" =>
        /\ Len(dw.sent) = IF ret[User] = "ok" THEN 1 ELSE 0
        /\ \A i \in DOMAIN dw.sent :
              LET msg == dw.sent[i]
                  f == Split(msg.body, NUL)
              IN  /\ msg.Command = BLYNK_CMD_HARDWARE
                  /\ Len(f) = 3
                  /\ f[1] = <<"d", "w">>
                  /\ IsDecimalOf(f[2], dw.pin)
                  /\ f[3] = IF dw.value THEN <<"1">> ELSE <<"0">>
                  /\ msg.Length = Len(msg.body)
                  /\ msg.MessageId = (dw.before + 1) % Uint16Mod
                  /\ msg.MessageId = msgID

\* DigitalWrite(13, true) has written its frame on a Ready connection.
C15_Witness ==
    /\ op[User] = "DigitalWrite" /\ ret[User] = "ok"
    /\ connected /\ conn = "open"
    /\ dw.pin = 13 /\ dw.value
    /\ Len(dw.sent) = 1

\* C13: when the processor handles a hardware push with a write tag for pin
\* p, it calls the write handler registered for p (by the latest Add not
\* followed by a Delete) exactly once, with p and the value delivered, and
\* no other handler; when no write handler is registered for p (never, or
\* deleted, or only a read handler) it calls nothing, raises no fault and
\* the processor keeps running.
C13_WritePushDispatch ==
    [][ (prLive > 0 /\ Len(recvMsg'.q) < Len(recvMsg.q)) =>
          LET push == ParsePush(Head(recvMsg.q))
              fn == Replay(regLog, "writer", push.pin)
          IN  push.tag \in WriteTags =>
                /\ dispatched' =
                      IF fn # NoHandler
                      THEN <<Invocation("writer", fn, push.pin, push.value)>>
                      ELSE <<>>
                /\ fault' = "none"
                /\ prLive' = prLive ]_vars

\* The write handler of pin 1 was replaced, and a push writing "1" to pin 1
\* called the handler registered last.
C13_Witness ==
    /\ regLog = << RegCall("writer", "Add", 1, "f"),
                   RegCall("writer", "Add", 1, "g") >>
    /\ dispatched = <<Invocation("writer", "g", 1, <<"1">>)>>

====
